---------------------------- MODULE Spec2Model ----------------------------
(***************************************************************************)
(* Force_drag_nrlmsise00: resolution of the inputs of the NRLMSISE-00      *)
(* density model (epoch decomposition, day of year, F10.7 and Ap lookup)   *)
(* and normalisation of the model's raw output.                            *)
(*                                                                         *)
(* Texts are TLA+ strings; positions are 0-based as in std::string, and    *)
(* the operators below follow the semantics of the C++ library calls the   *)
(* source makes (substr, find, stoi, to_string, stream << and >>).         *)
(***************************************************************************)
EXTENDS Integers, Sequences, FiniteSets, TLC

(***************************************************************************)
(* Bounds of the model.                                                    *)
(***************************************************************************)
\* days of month offered to leap_year_doy are 0..MaxDay
MaxDay == 32
\* months offered to leap_year_doy are 0..MaxMonth
MaxMonth == 13
\* number of lines of a historical record file
MaxLines == 2
\* number of calls of nrlmsise00_density in one run
MaxCalls == 2

(***************************************************************************)
(* std::string and stream primitives.                                      *)
(***************************************************************************)
\* An `unsigned` is written as the signed number with the same 32 bits: npos is
\* -1, npos + 1 is 0, and a negative number stands for a position or a count
\* beyond the end of any text.
NPOS == -1

Min(a, b) == IF a <= b THEN a ELSE b

\* s[i], 0-based
At(s, i) == SubSeq(s, i + 1, i + 1)

\* s.substr(pos, n) is defined when 0 <= pos <= size (otherwise out_of_range)
SubstrOk(s, pos) == pos >= 0 /\ pos <= Len(s)

Substr(s, pos, n) == SubSeq(s, pos + 1, IF n < 0 THEN Len(s) ELSE Min(pos + n, Len(s)))

IsSpace(c) == c \in {" ", "\n", "\t", "\r"}

IsDigit(c) == c \in {"0", "1", "2", "3", "4", "5", "6", "7", "8", "9"}

DigitVal(c) == CHOOSE d \in 0..9 : At("0123456789", d) = c

\* s.find_first_of(c) stored in an `unsigned`
RECURSIVE FindFrom(_, _, _)
FindFrom(s, c, i) ==
    IF i >= Len(s) THEN NPOS
    ELSE IF At(s, i) = c THEN i ELSE FindFrom(s, c, i + 1)

FindFirstOf(s, c) == FindFrom(s, c, 0)

\* s.find_last_of(c) stored in an `unsigned`
RECURSIVE FindBack(_, _, _)
FindBack(s, c, i) ==
    IF i < 0 THEN NPOS
    ELSE IF At(s, i) = c THEN i ELSE FindBack(s, c, i - 1)

FindLastOf(s, c) == FindBack(s, c, Len(s) - 1)

\* line.find(search) != npos
Contains(line, search) ==
    \E i \in 0..(Len(line) - Len(search)) : Substr(line, i, Len(search)) = search

\* length of the leading run of whitespace / of non-whitespace / of digits
RECURSIVE WsLen(_)
WsLen(s) == IF s # "" /\ IsSpace(At(s, 0)) THEN 1 + WsLen(Tail(s)) ELSE 0

RECURSIVE TokLen(_)
TokLen(s) == IF s # "" /\ ~IsSpace(At(s, 0)) THEN 1 + TokLen(Tail(s)) ELSE 0

RECURSIVE DigLen(_)
DigLen(s) == IF s # "" /\ IsDigit(At(s, 0)) THEN 1 + DigLen(Tail(s)) ELSE 0

Drop(s, n) == SubSeq(s, n + 1, Len(s))

\* value of a string of digits
RECURSIVE DigitsVal(_, _)
DigitsVal(s, acc) ==
    IF s = "" THEN acc ELSE DigitsVal(Tail(s), 10 * acc + DigitVal(At(s, 0)))

\* std::stoi: skips whitespace, takes an optional sign and the leading digits;
\* throws invalid_argument when there is no digit
StoiBody(s) == Drop(s, WsLen(s))

StoiSigned(s) == StoiBody(s) # "" /\ At(StoiBody(s), 0) \in {"+", "-"}

StoiDigits(s) ==
    LET b == IF StoiSigned(s) THEN Tail(StoiBody(s)) ELSE StoiBody(s)
    IN  SubSeq(b, 1, DigLen(b))

StoiOk(s) == StoiDigits(s) # ""

Stoi(s) ==
    LET v == DigitsVal(StoiDigits(s), 0)
    IN  IF StoiSigned(s) /\ At(StoiBody(s), 0) = "-" THEN 0 - v ELSE v

\* std::to_string(int)
RECURSIVE NatString(_)
NatString(n) ==
    IF n < 10 THEN At("0123456789", n)
    ELSE NatString(n \div 10) \o At("0123456789", n % 10)

to_string(n) == IF n < 0 THEN "-" \o NatString(0 - n) ELSE NatString(n)

\* A std::stringstream: the unread text and the eofbit / failbit.
NewStream == [buf |-> "", eof |-> FALSE, fail |-> FALSE]

\* stream << s : nothing is written once eofbit or failbit is set
StreamWrite(st, s) ==
    IF st.eof \/ st.fail THEN [st EXCEPT !.fail = TRUE]
    ELSE [st EXCEPT !.buf = st.buf \o s]

\* stream >> str : [st, val]; str keeps its old value when the extraction fails,
\* and eofbit is set when the token runs to the end of the text
StreamRead(st, old) ==
    IF st.eof \/ st.fail THEN [st |-> [st EXCEPT !.fail = TRUE], val |-> old]
    ELSE LET b == Drop(st.buf, WsLen(st.buf))
         IN  IF b = ""
             THEN [st |-> [buf |-> "", eof |-> TRUE, fail |-> TRUE], val |-> old]
             ELSE [st |-> [buf |-> Drop(b, TokLen(b)), eof |-> (TokLen(b) = Len(b)),
                           fail |-> FALSE],
                   val |-> SubSeq(b, 1, TokLen(b))]

\* stream << s; stream >> s on a fresh stream
RoundTrip(s) == StreamRead(StreamWrite(NewStream, s), s).val

\* the whitespace-separated words of a text
RECURSIVE Words(_)
Words(s) ==
    LET b == Drop(s, WsLen(s))
    IN  IF b = "" THEN <<>>
        ELSE <<SubSeq(b, 1, TokLen(b))>> \o Words(Drop(b, TokLen(b)))

\* the n-th word read by a chain of >> into empty strings
Word(s, n) == IF n <= Len(Words(s)) THEN Words(s)[n] ELSE ""

(***************************************************************************)
(* State.                                                                  *)
(***************************************************************************)
VARIABLES
    pc,               \* position in nrlmsise00_density
    fault,            \* how the process ended, "none" while it runs
    console,          \* last message written to std::cout
    calls,            \* calls of nrlmsise00_density started
    str_dayyear,      \* members written to the tuple msis_time_stamp returns
    str_previous_day,
    str_f10year,
    cwd,              \* working directory of the process
    entry_cwd,        \* working directory when retrieve_mass_density was entered
    fs,               \* the hard-coded paths that exist on this machine
    solfsmy,          \* lines of SOLFSMY.TXT
    apindex,          \* lines of apindex
    epoch,            \* state->eci.epoch.str_UTC_datestamp()
    tsl,              \* locals of msis_time_stamp
    doy,              \* locals and result of leap_year_doy
    ts,               \* tuple returned by msis_time_stamp
    F107_value,
    F107A_value,
    Ap_value,
    command,          \* FILE* returned by popen
    result,           \* char result[24]
    sentinel,         \* the substitution branch of retrieve_mass_density was taken
    rho

vars == <<pc, fault, console, calls, str_dayyear, str_previous_day, str_f10year,
          cwd, entry_cwd, fs, solfsmy, apindex, epoch, tsl, doy, ts,
          F107_value, F107A_value, Ap_value, command, result, sentinel, rho>>

members == <<str_dayyear, str_previous_day, str_f10year>>

environment == <<fs, solfsmy, apindex>>

density_locals == <<command, result, sentinel, rho>>

(***************************************************************************)
(* leap_year_doy                                                           *)
(***************************************************************************)
cal_days == [m \in 1..11 |->
    <<0, 31, 59, 90, 120, 151, 181, 212, 243, 273, 304>>[m]]

leap_days == [m \in 1..11 |->
    <<0, 31, 60, 91, 121, 152, 182, 213, 244, 274, 305>>[m]]

\* the list with 1996 in the place of 2996
leap_yrs_1996 == {1992, 1996, 2000, 2004, 2008, 2012, 2016, 2020}

leap_yrs == {1992, 2996, 2000, 2004, 2008, 2012, 2016, 2020}

\* the two assignments of the key exchanged between the branches
DayPrevSwapped(table, wrap, int_year, int_month, int_day) ==
    LET int_dayyear == table[int_month] + int_day
    IN  IF int_dayyear > 1
        THEN [int_dayyear |-> int_dayyear, int_f10year |-> int_year - 1,
              int_previous_day |-> int_dayyear - 1]
        ELSE [int_dayyear |-> int_dayyear, int_f10year |-> int_year,
              int_previous_day |-> wrap]

\* lines 184-192 and 207-215: the day of year and the key of the previous day, from
\* the table of one branch; wrap is the day number used on the first day of a year
DayPrev(table, wrap, int_year, int_month, int_day) ==
    LET int_dayyear == table[int_month] + int_day
    IN  IF int_dayyear > 1
        THEN [int_dayyear |-> int_dayyear, int_f10year |-> int_year,
              int_previous_day |-> int_dayyear - 1]
        ELSE [int_dayyear |-> int_dayyear, int_f10year |-> int_year - 1,
              int_previous_day |-> wrap]

NoDoy == [found |-> FALSE, int_dayyear |-> 0, int_previous_day |-> 0,
          int_f10year |-> 0, ret |-> <<"", "", "">>]

\* The strings str_dayyear, str_previous_day and str_f10year declared inside the
\* two branches go out of scope at the end of their block; the strings streamed
\* and returned after the branches are the members m = <<str_dayyear,
\* str_previous_day, str_f10year>>.
leap_year_doy(int_year, int_month, int_day, m) ==
    LET leap  == int_year \in leap_yrs
        table == IF leap THEN leap_days ELSE cal_days
    IN  IF int_month \in DOMAIN table
        THEN LET r == DayPrev(table, IF leap THEN 366 ELSE 365,
                              int_year, int_month, int_day)
             IN  [found |-> TRUE,
                  int_dayyear |-> r.int_dayyear,
                  int_previous_day |-> r.int_previous_day,
                  int_f10year |-> r.int_f10year,
                  ret |-> <<RoundTrip(m[1]), RoundTrip(m[2]), RoundTrip(m[3])>>,
                  console |-> ""]
        ELSE [NoDoy EXCEPT !.ret = m] @@
             [console |-> IF leap THEN "Month not found in leap_days."
                          ELSE "Month not found in cal_days."]


(***************************************************************************)
(* msis_time_stamp                                                         *)
(***************************************************************************)
\* the four fields mod_str1..mod_str4 cut out of the epoch text
EpochFields(e) ==
    IF Len(Words(e)) = 3
    THEN LET break_str == Word(e, 1)
             slash1    == FindFirstOf(break_str, "/")
             mod_str1  == Substr(break_str, 0, slash1)
         IN  <<mod_str1,
               Substr(break_str, (slash1 + 1), Len(break_str) - Len(mod_str1)),
               Word(e, 2), Word(e, 3)>>
    ELSE <<Word(e, 1), Word(e, 2), Word(e, 3), Word(e, 4)>>

MonthWidth(len2) == IF len2 = 7 THEN 1 ELSE 2

DayWidth(len1) == IF len1 = 2 THEN 1 ELSE 2

\* lines 95-140: the locals of msis_time_stamp before leap_year_doy is called; thrown
\* names the exception of the first substr or stoi that throws
ParseEpoch(e) ==
    LET f            == EpochFields(e)
        mod_str1     == f[1]
        mod_str2     == f[2]
        mod_str3     == f[3]
        len1         == Len(mod_str1)
        len2         == Len(mod_str2)
        model_year   == Substr(mod_str2, len2 - 5, 4)
        model_month  == Substr(mod_str2, 0, MonthWidth(len2))
        model_day    == Substr(mod_str1, 0, DayWidth(len1))
        first        == FindFirstOf(mod_str3, ":")
        last         == FindLastOf(mod_str3, ":")
        model_hour   == Substr(mod_str3, 0, first)
        model_minute == Substr(mod_str3, (first + 1), (last - first - 1))
        model_second == Substr(mod_str3, (last + 1), 6)
        thrown ==
            IF ~SubstrOk(mod_str2, len2 - 5) THEN "out_of_range"
            ELSE IF ~StoiOk(model_year) \/ ~StoiOk(model_month) \/ ~StoiOk(model_day)
                 THEN "invalid_argument"
            ELSE IF ~SubstrOk(mod_str3, (first + 1)) \/ ~SubstrOk(mod_str3, (last + 1))
                 THEN "out_of_range"
            ELSE IF ~StoiOk(model_hour) \/ ~StoiOk(model_minute) \/ ~StoiOk(model_second)
                 THEN "invalid_argument"
            ELSE "none"
    IN  IF thrown # "none" THEN [thrown |-> thrown]
        ELSE [thrown       |-> "none",
              model_year   |-> model_year,
              model_month  |-> model_month,
              model_day    |-> model_day,
              model_second |-> to_string(Stoi(model_second) + Stoi(model_minute) * 60
                                        + Stoi(model_hour) * 3600),
              int_year     |-> Stoi(model_year),
              int_month    |-> Stoi(model_month),
              int_day      |-> Stoi(model_day)]

NoLocals == [thrown |-> "none", model_year |-> "", model_month |-> "", model_day |-> "",
             model_second |-> "", int_year |-> 0, int_month |-> 0, int_day |-> 0]

NoStamp == [day_of_year |-> "", previous_day |-> "", f10_year |-> "", second |-> "",
            day |-> "", month |-> "", year |-> ""]


(***************************************************************************)
(* msis_f107                                                               *)
(***************************************************************************)
SearchKey(prev_day, f10_year) ==
    IF Len(prev_day) = 3 THEN f10_year \o " " \o prev_day
    ELSE IF Len(prev_day) = 2 THEN f10_year \o "  " \o prev_day
    ELSE f10_year \o "   " \o prev_day

\* line_stream >> ignore1 >> ignore2 >> ignore3 >> F107_value >> F107A_value
RECURSIVE ReadFields(_, _, _)
ReadFields(st, v, i) ==
    IF i > Len(v) THEN [st |-> st, v |-> v]
    ELSE LET r == StreamRead(st, v[i])
         IN  ReadFields(r.st, [v EXCEPT ![i] = r.val], i + 1)

\* lines 268-270: line_stream is declared once, outside the loop, and is never
\* cleared: the line is appended to what is left unread, and nothing is appended
\* once the stream has met its end
ParseLine(st, v, line) == ReadFields(StreamWrite(st, line), v, 1)

RECURSIVE ScanF107(_, _, _, _, _)
ScanF107(lines, i, search, st, v) ==
    IF i > Len(lines) THEN v
    ELSE IF Contains(lines[i], search)
         THEN LET r == ParseLine(st, v, lines[i])
              IN  ScanF107(lines, i + 1, search, r.st, r.v)
         ELSE ScanF107(lines, i + 1, search, st, v)

\* <<F107_value, F107A_value>>
msis_f107(prev_day, f10_year, lines) ==
    LET v == ScanF107(lines, 1, SearchKey(prev_day, f10_year), NewStream,
                      <<"", "", "", "", "">>)
    IN  <<v[4], v[5]>>

(***************************************************************************)
(* ap_value                                                                *)
(***************************************************************************)
\* yymmdd
ApKey(model_year, model_month, model_day) ==
    Substr(model_year, 2, 2)
        \o (IF Len(model_month) = 1 THEN "0" ELSE "") \o model_month
        \o (IF Len(model_day) = 1 THEN "0" ELSE "") \o model_day

ApMatches(line, key) == Contains(line, key) /\ Substr(line, 0, 6) = key

\* the loop of lines 309-315: [thrown, line_stream1]
RECURSIVE ScanAp(_, _, _, _)
ScanAp(lines, i, key, line_stream1) ==
    IF i > Len(lines) THEN [thrown |-> "none", line_stream1 |-> line_stream1]
    ELSE IF ApMatches(lines[i], key)
         THEN IF SubstrOk(lines[i], 31)
              THEN ScanAp(lines, i + 1, key, Substr(lines[i], 31, 24))
              ELSE [thrown |-> "out_of_range", line_stream1 |-> line_stream1]
         ELSE ScanAp(lines, i + 1, key, line_stream1)

\* Ap1 .. Ap8
ApFields(line_stream1) == [k \in 1..8 |-> Substr(line_stream1, 3 * (k - 1), 3)]

RECURSIVE SumTo(_, _)
SumTo(f, k) == IF k = 0 THEN 0 ELSE f[k] + SumTo(f, k - 1)

\* the mean of the eight values cut towards zero
MeanTruncated(sum) == IF sum >= 0 THEN sum \div 8 ELSE 0 - ((0 - sum) \div 8)

\* round(float(sum) / 8): to the nearest integer, halves away from zero
MeanRounded(sum) ==
    LET a == IF sum >= 0 THEN sum ELSE 0 - sum
        q == IF 2 * (a % 8) >= 8 THEN a \div 8 + 1 ELSE a \div 8
    IN  IF sum >= 0 THEN q ELSE 0 - q

\* [thrown, Ap_value]; lines is <<>> when the file could not be opened
ap_value(model_year, model_month, model_day, lines) ==
    IF ~SubstrOk(model_year, 2) THEN [thrown |-> "out_of_range", Ap_value |-> ""]
    ELSE LET s  == ScanAp(lines, 1, ApKey(model_year, model_month, model_day), "")
             ap == ApFields(s.line_stream1)
         IN  IF s.thrown # "none" THEN [thrown |-> s.thrown, Ap_value |-> ""]
             ELSE IF Len(s.line_stream1) < 21
                  THEN [thrown |-> "out_of_range", Ap_value |-> ""]
             ELSE IF \E k \in 1..8 : ~StoiOk(ap[k])
                  THEN [thrown |-> "invalid_argument", Ap_value |-> ""]
             ELSE [thrown |-> "none",
                   Ap_value |-> to_string(MeanRounded(
                                    SumTo([k \in 1..8 |-> Stoi(ap[k])], 8)))]

(***************************************************************************)
(* retrieve_mass_density                                                   *)
(***************************************************************************)
INSTALL == "hawke_files/MSIS-model_c"

BIN == "hawke_files/odl20lite/bin"

SOLFSMY == "hawke_files/msis-model_c/DATA/SOLFSMY.TXT"

APINDEX == "hawke_files/msis-model_c/DATA/apindex"

\* chdir(path): the return value is not looked at
chdir(path, from) == IF path \in fs THEN path ELSE from

\* fgets(result, 24, command) on a stream that holds out: at most 23 characters,
\* up to and including the first newline
RECURSIVE LineLen(_)
LineLen(s) ==
    IF s = "" THEN 0 ELSE IF At(s, 0) = "\n" THEN 1 ELSE 1 + LineLen(Tail(s))

fgets(out) == SubSeq(out, 1, Min(23, LineLen(out)))

\* the position at which the exponent marker is looked for
MarkerAt == 8

\* the part of a text std::stod reads as a decimal number: sign, digits, point, digits
NumLen(s) ==
    LET sg   == IF s # "" /\ At(s, 0) \in {"+", "-"} THEN 1 ELSE 0
        ip   == DigLen(Drop(s, sg))
        rest == Drop(s, sg + ip)
        fp   == IF rest # "" /\ At(rest, 0) = "." THEN DigLen(Tail(rest)) ELSE 0
    IN  IF ip + fp = 0 THEN 0
        ELSE IF rest # "" /\ At(rest, 0) = "." THEN sg + ip + 1 + fp ELSE sg + ip

\* the exponent is the raw exponent, the unit left as g/cm^3
ConvertNone(e) == e

\* gm/cm-3 to kg/m-3
Convert(e) == e + 3

\* lines 366-383 on the text left in result: [thrown, sentinel, rho]; rho is a
\* decimal mantissa and a power of ten
Normalise(str_res) ==
    IF str_res = "inf"
    THEN [thrown |-> "none", sentinel |-> TRUE, rho |-> [mantissa |-> "1.000", exponent |-> -13]]
    ELSE IF ~SubstrOk(str_res, MarkerAt)
    THEN [thrown |-> "out_of_range", sentinel |-> FALSE, rho |-> [mantissa |-> "", exponent |-> 0]]
    ELSE IF Substr(str_res, MarkerAt, 1) # "e"
    THEN [thrown |-> "none", sentinel |-> TRUE, rho |-> [mantissa |-> "1.000", exponent |-> -13]]
    ELSE LET slash2    == FindFirstOf(str_res, "e")
             str_start == Substr(str_res, 0, slash2)
             str_end   == Substr(str_res, slash2 + 1, 3)
             body      == Drop(str_start, WsLen(str_start))
         IN  IF ~StoiOk(str_end) \/ NumLen(body) = 0
             THEN [thrown |-> "invalid_argument", sentinel |-> FALSE,
                   rho |-> [mantissa |-> "", exponent |-> 0]]
             ELSE [thrown |-> "none", sentinel |-> FALSE,
                   rho |-> [mantissa |-> SubSeq(body, 1, NumLen(body)),
                            exponent |-> IF NumLen(body) = Len(body)
                                         THEN Convert(Stoi(str_end)) ELSE 0]]


(***************************************************************************)
(* Inputs.                                                                 *)
(***************************************************************************)
TwoDigits(n) == IF n < 10 THEN "0" \o to_string(n) ELSE to_string(n)

TimeField == "12:30:45.000000"

\* "DD/MM/YYYY HH:MM:SS.ffffff <trailing>"
Doc3(d, m, y) ==
    TwoDigits(d) \o "/" \o TwoDigits(m) \o "/" \o to_string(y) \o " " \o TimeField \o " Z"

\* "DD MMYYYY HH:MM:SS.ffffff <trailing>"
Doc4(d, m, y) ==
    TwoDigits(d) \o " " \o TwoDigits(m) \o to_string(y) \o " " \o TimeField \o " Z"

\* four words, the day and the month/year each followed by one more character:
\* "D, M/YYYY, HH:MM:SS.ffffff <trailing>"
Delimited(d, m, y) ==
    to_string(d) \o ", " \o to_string(m) \o "/" \o to_string(y) \o ", " \o TimeField \o " UTC"

DocDates == {<<d, m, y>> : d \in {1, 9, 15, 31}, m \in {1, 3, 12}, y \in {1999, 2020, 2021}}

RunDates == {<<15, 3, 2020>>, <<1, 1, 2020>>, <<1, 1, 2021>>, <<28, 2, 2019>>, <<31, 12, 2020>>}

Epochs ==
    {Doc3(t[1], t[2], t[3]) : t \in DocDates}
        \cup {Doc4(t[1], t[2], t[3]) : t \in {<<15, 3, 2020>>, <<1, 1, 2021>>}}
        \cup {Delimited(t[1], t[2], t[3]) : t \in RunDates}
        \cup {"", "15/03/2020 noon Z"}

\* years around the entries of leap_yrs
Years == {1991, 1992, 1993, 1996, 1997, 2000, 2019, 2020, 2021, 2996}

\* a line of SOLFSMY.TXT: year, day of year, Julian day, F10, F81c and what follows
F107Line(year, day, f10, f81, more) ==
    SearchKey(day, year) \o " 2458849.5  " \o f10 \o "  " \o f81 \o more

F107Lines ==
    {F107Line("2020", d, v[1], v[2], more) :
        d \in {"1", "45"}, v \in {<<"71.8", "70.6">>, <<"99.9", "88.8">>},
        more \in {"", " ", "  73.5", "  73.5  71.7"}}
    \cup {"2020   1 2458849.5", "2020 366 2459214.5  80.1  79.3"}

RECURSIVE Files(_, _)
Files(lines, n) ==
    IF n = 0 THEN {<<>>}
    ELSE Files(lines, n - 1) \cup
         {Append(f, l) : f \in {g \in Files(lines, n - 1) : Len(g) = n - 1}, l \in lines}

\* a line of apindex: yymmdd, 25 columns of other data, eight 3-column values
ApField(n, pad) ==
    IF n < 10 THEN pad \o pad \o to_string(n)
    ELSE IF n < 100 THEN pad \o to_string(n) ELSE to_string(n)

RECURSIVE ApFieldsText(_, _, _)
ApFieldsText(a, pad, k) ==
    IF k > Len(a) THEN "" ELSE ApField(a[k], pad) \o ApFieldsText(a, pad, k + 1)

ApLine(key, a, pad) ==
    key \o "2541 7 3 3 7 3 0 3 3 7 30" \o ApFieldsText(a, pad, 1) \o "  4 0.2 0"

ApVals == {3, 48, 400}

ApExample == <<5, 10, 15, 20, 25, 30, 35, 40>>

ApRecords == [1..8 -> ApVals] \cup {ApExample}

ApSamples == {ApExample, <<3, 3, 3, 3, 3, 3, 3, 7>>, <<400, 400, 400, 400, 400, 400, 400, 400>>,
              <<0, 0, 0, 0, 0, 0, 0, 0>>, <<0, 0, 0, 0, 0, 0, 0, 4>>}

PipeSolfsmy ==
    {<<"2020  74 2458922.5  70.1  70.9", "2020  75 2458923.5   71.8   70.6">>,
     <<F107Line("2020", "74", "70.1", "70.9", "  73.5"),
       F107Line("2020", "75", "71.8", "70.6", "  73.5")>>}

PipeApindex ==
    {<<ApLine("200315", ApExample, " "), ApLine("210101", <<7, 7, 7, 7, 7, 7, 7, 7>>, " ")>>,
     <<ApLine("200314", ApExample, "0")>>}

\* what the model may print, as seen by the first fgets
Mantissas == {"1.234567", "9.999999", "0.000000"}

Exponents == {"00", "02", "03", "11", "16", "99"}

Formatted == {m \o "e" \o sg \o x \o nl :
                m \in Mantissas, sg \in {"+", "-"}, x \in Exponents, nl \in {"\n", ""}}

Outputs ==
    Formatted \cup
    {"", "inf", "inf\n", "nan\n", "1.234e-11", "1.234e-11\n", "12345678", "1.234567\n",
     "-1.23456e-11\n", "1.234567e-100\n", "1.234567e\n", "abcdefghe-11\n",
     "1.2x4567e-11\n", "eeeeeeeee-11\n", "1.2345678901234567890123456789e-11\n",
     "1.234567e-5\n", "1.234567e11\n", "12345678e+02", "1234567.e-07\n",
     "1.234567e+100\n"}

\* what an undefined read may leave in result
Garbage == {"", "\n", "9.999999e-01\n"}

AllPaths == {INSTALL, BIN, SOLFSMY, APINDEX}

HOME == "/home/user"

(***************************************************************************)
(* Initial states.                                                         *)
(***************************************************************************)
NoRho == [mantissa |-> "", exponent |-> 0]

\* nothing computed yet in the current call
Cleared ==
    /\ fault = "none" /\ console = ""
    /\ str_dayyear = "" /\ str_previous_day = "" /\ str_f10year = ""
    /\ F107_value = "" /\ F107A_value = "" /\ Ap_value = ""
    /\ command = "none" /\ result = "" /\ sentinel = FALSE /\ rho = NoRho
    /\ doy = NoDoy

\* the object after construction, on a machine where at most one path is missing;
\* the three members are std::string objects that setup does not assign, so they
\* are empty
Init ==
    /\ pc = "idle" /\ calls = 0 /\ Cleared
    /\ epoch = "" /\ tsl = NoLocals /\ ts = NoStamp
    /\ fs \in {AllPaths} \cup {AllPaths \ {p} : p \in AllPaths}
    /\ cwd \in (fs \cap {INSTALL, BIN}) \cup {HOME}
    /\ entry_cwd = cwd
    /\ solfsmy \in IF SOLFSMY \in fs THEN PipeSolfsmy ELSE {<<>>}
    /\ apindex \in IF APINDEX \in fs THEN PipeApindex ELSE {<<>>}

\* leap_year_doy about to be called with any year, month and day
InitDoy ==
    /\ pc = "leap_year_doy" /\ calls = 1 /\ Cleared
    /\ epoch = "" /\ ts = NoStamp
    /\ \E y \in Years, m \in 0..MaxMonth, d \in 0..MaxDay :
          tsl = [NoLocals EXCEPT !.int_year = y, !.int_month = m, !.int_day = d]
    /\ fs = AllPaths /\ cwd = BIN /\ entry_cwd = cwd
    /\ solfsmy = <<>> /\ apindex = <<>>

\* msis_f107 about to be called with any key on any file of at most MaxLines lines,
\* or on a file that cannot be opened
InitF107 ==
    /\ pc = "msis_f107" /\ calls = 1 /\ Cleared
    /\ epoch = "" /\ tsl = NoLocals
    /\ \E d \in {"1", "45", "366"}, y \in {"2019", "2020"} :
          ts = [NoStamp EXCEPT !.previous_day = d, !.f10_year = y]
    /\ fs \in {AllPaths, AllPaths \ {SOLFSMY}} /\ cwd = BIN /\ entry_cwd = cwd
    /\ solfsmy \in IF SOLFSMY \in fs THEN Files(F107Lines, MaxLines) ELSE {<<>>}
    /\ apindex = <<>>

\* ap_value about to be called on a file whose record of the day holds any values:
\* the record alone, or after at most MaxLines - 1 other records and before a
\* line of another day or a line cut short, or a file without a usable record
InitAp ==
    /\ pc = "ap_value" /\ calls = 1 /\ Cleared
    /\ epoch = "" /\ tsl = NoLocals
    /\ \E t \in {<<"2020", "03", "15">>, <<"2021", "1", "1">>} :
          /\ ts = [NoStamp EXCEPT !.year = t[1], !.month = t[2], !.day = t[3]]
          /\ \/ \E a \in ApRecords :
                   apindex = <<ApLine(ApKey(t[1], t[2], t[3]), a, " ")>>
             \/ \E a \in ApSamples, pad \in {" ", "0"},
                   before \in Files({ApLine(ApKey(t[1], t[2], t[3]), ApExample, " "),
                                     ApLine("991231", ApExample, " ")}, MaxLines - 1),
                   after \in {<<>>, <<ApLine("991231", ApExample, " ")>>, <<"short">>,
                              <<ApKey(t[1], t[2], t[3]) \o " no values">>} :
                   apindex = before \o <<ApLine(ApKey(t[1], t[2], t[3]), a, pad)>> \o after
             \/ apindex \in {<<>>, <<ApLine("991231", ApExample, " ")>>,
                              <<ApKey(t[1], t[2], t[3]) \o "2541 7 3 3 7 3 0 3 3 7 30"
                                  \o "  5 10 15 20  . 30 35 40  4 0.2 0">>}
    /\ fs \in {AllPaths, AllPaths \ {APINDEX}} /\ cwd = BIN /\ entry_cwd = cwd
    /\ solfsmy = <<>>

(***************************************************************************)
(* nrlmsise00_density, one action for each call it makes.                  *)
(***************************************************************************)
\* lines 42-43: the epoch of this call is read (msis_lla_coordinates, line 41, only
\* formats the position handed to the model's command line and is left out)
Call ==
    /\ pc = "idle" /\ calls < MaxCalls
    /\ \E e \in Epochs : epoch' = e
    /\ calls' = calls + 1
    /\ pc' = "msis_time_stamp"
    /\ UNCHANGED <<fault, console, members, cwd, entry_cwd, environment, tsl, doy, ts,
                   F107_value, F107A_value, Ap_value, density_locals>>

\* msis_time_stamp, lines 95-140; an exception that leaves nrlmsise00_density is
\* caught nowhere and ends the process
MsisTimeStampParse ==
    /\ pc = "msis_time_stamp"
    /\ LET r == ParseEpoch(epoch)
       IN  IF r.thrown = "none"
           THEN tsl' = r /\ pc' = "leap_year_doy" /\ fault' = fault
           ELSE tsl' = tsl /\ pc' = "terminated" /\ fault' = r.thrown
    /\ UNCHANGED <<console, calls, members, cwd, entry_cwd, environment, epoch, doy, ts,
                   F107_value, F107A_value, Ap_value, density_locals>>

\* leap_year_doy, called at lines 142-143
LeapYearDoy ==
    /\ pc = "leap_year_doy"
    /\ LET r == leap_year_doy(tsl.int_year, tsl.int_month, tsl.int_day, members)
       IN  /\ doy' = [found |-> r.found, int_dayyear |-> r.int_dayyear,
                      int_previous_day |-> r.int_previous_day,
                      int_f10year |-> r.int_f10year, ret |-> r.ret]
           /\ str_dayyear' = r.ret[1]
           /\ str_previous_day' = r.ret[2]
           /\ str_f10year' = r.ret[3]
           /\ console' = r.console
           /\ IF r.found
              THEN pc' = "msis_time_stamp_return" /\ fault' = fault
              ELSE pc' = "terminated" /\ fault' = "abort"
    /\ UNCHANGED <<calls, cwd, entry_cwd, environment, epoch, tsl, ts,
                   F107_value, F107A_value, Ap_value, density_locals>>

\* msis_time_stamp, lines 145-155
MsisTimeStampReturn ==
    /\ pc = "msis_time_stamp_return"
    /\ ts' = [day_of_year  |-> str_dayyear,
              previous_day |-> str_previous_day,
              f10_year     |-> str_f10year,
              second       |-> RoundTrip(tsl.model_second),
              day          |-> RoundTrip(tsl.model_day),
              month        |-> RoundTrip(tsl.model_month),
              year         |-> RoundTrip(tsl.model_year)]
    /\ pc' = "msis_f107"
    /\ UNCHANGED <<fault, console, calls, members, cwd, entry_cwd, environment, epoch, tsl,
                   doy, F107_value, F107A_value, Ap_value, density_locals>>

\* msis_f107, called at lines 44-45
MsisF107 ==
    /\ pc = "msis_f107"
    /\ IF SOLFSMY \in fs
       THEN LET v == msis_f107(ts.previous_day, ts.f10_year, solfsmy)
            IN  /\ F107_value' = v[1] /\ F107A_value' = v[2]
                /\ pc' = "ap_value" /\ fault' = fault /\ console' = console
       ELSE /\ console' = "Unable to open file"
            /\ pc' = "terminated" /\ fault' = "exit"
            /\ UNCHANGED <<F107_value, F107A_value>>
    /\ UNCHANGED <<calls, members, cwd, entry_cwd, environment, epoch, tsl, doy, ts,
                   Ap_value, density_locals>>

\* ap_value, called at line 46
ApValue ==
    /\ pc = "ap_value"
    /\ LET r == ap_value(ts.year, ts.month, ts.day,
                         IF APINDEX \in fs THEN apindex ELSE <<>>)
       IN  /\ Ap_value' = r.Ap_value
           /\ IF r.thrown = "none"
              THEN pc' = "retrieve_mass_density" /\ fault' = fault
              ELSE pc' = "terminated" /\ fault' = r.thrown
    /\ UNCHANGED <<console, calls, members, cwd, entry_cwd, environment, epoch, tsl, doy,
                   ts, F107_value, F107A_value, density_locals>>

\* retrieve_mass_density, lines 356-358: chdir to the model and popen
RmdStart ==
    /\ pc = "retrieve_mass_density"
    /\ entry_cwd' = cwd
    /\ cwd' = chdir(INSTALL, cwd)
    /\ \E c \in {"open", "NULL"} : command' = c
    /\ pc' = "rmd_read"
    /\ UNCHANGED <<fault, console, calls, members, environment, epoch, tsl, doy, ts,
                   F107_value, F107A_value, Ap_value, result, sentinel, rho>>

\* lines 359-361: the body of the while loop is pclose(command), so that a second
\* fgets reads a stream that is already closed; what that read does is not defined:
\* it fails and leaves result alone, it ends the process, or it writes into result.
\* fgets on the null stream of a failed popen is not defined either.
RmdRead ==
    /\ pc = "rmd_read"
    /\ IF command = "NULL"
       THEN \E ub \in {"fails", "crash"} :
              /\ result' = result /\ command' = command
              /\ IF ub = "crash" THEN pc' = "terminated" /\ fault' = "crash"
                 ELSE pc' = "rmd_finish" /\ fault' = fault
       ELSE \E out \in Outputs :
              IF out = ""
              THEN result' = "" /\ command' = command
                   /\ pc' = "rmd_finish" /\ fault' = fault
              ELSE \E ub \in {"fails", "crash", "writes"} :
                     /\ command' = "closed"
                     /\ IF ub = "writes" THEN \E g \in Garbage : result' = g
                        ELSE result' = fgets(out)
                     /\ IF ub = "crash" THEN pc' = "terminated" /\ fault' = "crash"
                        ELSE pc' = "rmd_finish" /\ fault' = fault
    /\ UNCHANGED <<console, calls, members, cwd, entry_cwd, environment, epoch, tsl, doy,
                   ts, F107_value, F107A_value, Ap_value, sentinel, rho>>

\* lines 362-383: chdir to the propagator's bin directory, then the conversion
RmdFinish ==
    /\ pc = "rmd_finish"
    /\ cwd' = chdir(BIN, cwd)
    /\ LET r == Normalise(result)
       IN  /\ sentinel' = r.sentinel
           /\ rho' = r.rho
           /\ console' = IF r.sentinel
                         THEN "1.0E-16 substituted for infinite density value returned by nrlmsise."
                         ELSE console
           /\ IF r.thrown = "none"
              THEN pc' = "done" /\ fault' = fault
              ELSE pc' = "terminated" /\ fault' = r.thrown
    /\ UNCHANGED <<calls, members, entry_cwd, environment, epoch, tsl, doy, ts,
                   F107_value, F107A_value, Ap_value, command, result>>

\* line 50: rho is returned and the locals of the call are gone
Return ==
    /\ pc = "done"
    /\ pc' = "idle"
    /\ epoch' = "" /\ tsl' = NoLocals /\ doy' = NoDoy /\ ts' = NoStamp
    /\ F107_value' = "" /\ F107A_value' = "" /\ Ap_value' = ""
    /\ command' = "none" /\ result' = "" /\ sentinel' = FALSE /\ rho' = NoRho
    /\ console' = ""
    /\ UNCHANGED <<fault, calls, members, cwd, entry_cwd, environment>>

Next ==
    \/ Call
    \/ MsisTimeStampParse
    \/ LeapYearDoy
    \/ MsisTimeStampReturn
    \/ MsisF107
    \/ ApValue
    \/ RmdStart
    \/ RmdRead
    \/ RmdFinish
    \/ Return

Spec == Init /\ [][Next]_vars

\* leap_year_doy on its own
NextDoy == LeapYearDoy

SpecDoy == InitDoy /\ [][NextDoy]_vars

\* msis_f107 on its own
NextF107 == MsisF107

SpecF107 == InitF107 /\ [][NextF107]_vars

\* ap_value on its own
NextAp == ApValue

SpecAp == InitAp /\ [][NextAp]_vars


(***************************************************************************)
(* Properties of leap_year_doy (SpecDoy).                                  *)
(***************************************************************************)
DoyReturned == pc # "leap_year_doy"

StatedCalDays == <<0, 31, 59, 90, 120, 151, 181, 212, 243, 273, 304>>

StatedLeapDays == <<0, 31, 60, 91, 121, 152, 182, 213, 244, 274, 305>>

StatedLeapYears == {1992, 2996, 2000, 2004, 2008, 2012, 2016, 2020}

\* C6: for every year, month and day, a month in 1..11 gives day_of_year =
\* cumulative[month] + day, from the leap table exactly when the year is in the
\* fixed list and from the non-leap table otherwise; any other month (12
\* included) computes no day of year and ends the process after "Month not found".
C6_DayOfYear ==
    DoyReturned =>
        IF tsl.int_month \in 1..11
        THEN /\ doy.found /\ fault = "none" /\ pc # "terminated"
             /\ doy.int_dayyear =
                   (IF tsl.int_year \in StatedLeapYears
                    THEN StatedLeapDays[tsl.int_month]
                    ELSE StatedCalDays[tsl.int_month]) + tsl.int_day
        ELSE /\ ~doy.found /\ pc = "terminated" /\ fault = "abort"
             /\ Substr(console, 0, 15) = "Month not found"

\* 1 March of a year of the list is day 61
C6_Witness ==
    /\ pc = "msis_time_stamp_return"
    /\ tsl.int_year = 2020 /\ tsl.int_month = 3 /\ tsl.int_day = 1
    /\ doy.int_dayyear = 61

\* C7: for month in 1..11 and day >= 1: a day of year above 1 gives
\* previous_day_of_year = day_of_year - 1 and f107_lookup_year = year; day of year
\* 1 gives f107_lookup_year = year - 1 and previous_day_of_year 366 when the year
\* is in the fixed list and 365 when it is not.
C7_DayOfYearInfo ==
    (DoyReturned /\ tsl.int_month \in 1..11 /\ tsl.int_day >= 1) =>
        /\ doy.found
        /\ doy.int_dayyear > 1 =>
              /\ doy.int_previous_day = doy.int_dayyear - 1
              /\ doy.int_f10year = tsl.int_year
        /\ doy.int_dayyear = 1 =>
              /\ doy.int_f10year = tsl.int_year - 1
              /\ doy.int_previous_day =
                    IF tsl.int_year \in StatedLeapYears THEN 366 ELSE 365

\* 1 January 2020
C7_Witness ==
    /\ pc = "msis_time_stamp_return"
    /\ tsl.int_year = 2020 /\ tsl.int_month = 1 /\ tsl.int_day = 1
    /\ doy.int_dayyear = 1 /\ doy.int_previous_day = 366 /\ doy.int_f10year = 2019

\* C10: on 1 January of year Y the key is (Y - 1, L), L being the length the
\* function gives year Y - 1: 366 exactly when Y - 1 is in the list, else 365.
C10_PreviousYearLength ==
    (DoyReturned /\ doy.found /\ doy.int_dayyear = 1) =>
        /\ doy.int_f10year = tsl.int_year - 1
        /\ doy.int_previous_day =
              IF (tsl.int_year - 1) \in StatedLeapYears THEN 366 ELSE 365

(***************************************************************************)
(* Properties of msis_f107 (SpecF107).                                     *)
(***************************************************************************)
F107Matching ==
    SelectSeq(solfsmy, LAMBDA l : Contains(l, SearchKey(ts.previous_day, ts.f10_year)))

\* C2: when two or more lines contain the search key, F10.7 and F10.7A are the
\* 4th and 5th whitespace-separated fields of the last matching line.
C2_LastMatchWins ==
    (pc = "ap_value" /\ Len(F107Matching) >= 2) =>
        LET last == F107Matching[Len(F107Matching)]
        IN  F107_value = Word(last, 4) /\ F107A_value = Word(last, 5)

(***************************************************************************)
(* Properties of ap_value (SpecAp).                                        *)
(***************************************************************************)
ApMatching ==
    SelectSeq(IF APINDEX \in fs THEN apindex ELSE <<>>,
              LAMBDA l : Substr(l, 0, 6) = ApKey(ts.year, ts.month, ts.day))

\* the eight 3-column values of a record, columns [31, 55)
RecordField(rec, k) == Substr(rec, 31 + 3 * (k - 1), 3)

RecordParses(rec) ==
    /\ Len(rec) >= 55
    /\ \A k \in 1..8 : StoiOk(RecordField(rec, k)) /\ Stoi(RecordField(rec, k)) >= 0

RecordSum(rec) == SumTo([k \in 1..8 |-> Stoi(RecordField(rec, k))], 8)

\* C8: for a matched record whose eight sub-fields parse to non-negative
\* integers a1..a8, ap_value returns the decimal text of floor((a1+...+a8+4)/8),
\* the mean rounded to the nearest integer with halves away from zero.
C8_ApMean ==
    (pc # "ap_value" /\ ApMatching # <<>> /\ RecordParses(ApMatching[Len(ApMatching)])) =>
        /\ pc = "retrieve_mass_density" /\ fault = "none"
        /\ Ap_value = to_string((RecordSum(ApMatching[Len(ApMatching)]) + 4) \div 8)

\* the record 005010015020025030035040 (mean 22.5) gives 23
C8_Witness ==
    /\ pc = "retrieve_mass_density"
    /\ apindex = <<ApLine("200315", ApExample, "0")>>
    /\ Substr(apindex[1], 31, 24) = "005010015020025030035040"
    /\ Ap_value = "23"

(***************************************************************************)
(* Properties of nrlmsise00_density (Spec).                                *)
(***************************************************************************)
\* C1: every epoch "DD/MM/YYYY HH:MM:SS.ffffff <trailing>" is decomposed without
\* failure into the year, month and day written in it.
C1_EpochRoundTrip ==
    \A t \in DocDates :
        (epoch = Doc3(t[1], t[2], t[3]) /\ pc \notin {"idle", "msis_time_stamp"}) =>
            /\ fault = "none"
            /\ tsl.int_day = t[1] /\ tsl.int_month = t[2] /\ tsl.int_year = t[3]

\* C9: the day_of_year, previous_day and f10_year strings that leap_year_doy and
\* msis_time_stamp return are the decimal texts of the integers leap_year_doy
\* computed for the epoch of the same call.
C9_DoyReachesConsumers ==
    pc = "msis_f107" =>
        /\ doy.ret = <<to_string(doy.int_dayyear), to_string(doy.int_previous_day),
                       to_string(doy.int_f10year)>>
        /\ ts.day_of_year = to_string(doy.int_dayyear)
        /\ ts.previous_day = to_string(doy.int_previous_day)
        /\ ts.f10_year = to_string(doy.int_f10year)

\* lines 362-383 of retrieve_mass_density have run
Normalised == command # "none" /\ pc \in {"done", "terminated"} /\ fault # "crash"

SentinelDensity == [mantissa |-> "1.000", exponent |-> -13]

IsSign(c) == c \in {"+", "-"}

AllDigits(s) == s # "" /\ DigLen(s) = Len(s)

\* decimal text: an optional sign, digits with at most one point, one digit at least
IsDecimalText(s) ==
    LET u == IF s # "" /\ IsSign(At(s, 0)) THEN Tail(s) ELSE s
        p == FindFirstOf(u, ".")
    IN  IF p = NPOS THEN AllDigits(u)
        ELSE /\ Len(u) >= 2
             /\ \A i \in 0..(Len(u) - 1) : i # p => IsDigit(At(u, i))

\* the text with one final newline removed
Chomp(s) == IF s # "" /\ At(s, Len(s) - 1) = "\n" THEN SubSeq(s, 1, Len(s) - 1) ELSE s

RawMantissa(r) == Substr(r, 0, FindFirstOf(r, "e"))

RawExponent(r) == Chomp(Drop(r, FindFirstOf(r, "e") + 1))

\* <mantissa>e<exponent>: a decimal mantissa, an exponent of one to three digits
\* with an optional sign
IsScientific(r) ==
    /\ FindFirstOf(r, "e") # NPOS
    /\ IsDecimalText(RawMantissa(r))
    /\ LET x == RawExponent(r)
           d == IF x # "" /\ IsSign(At(x, 0)) THEN Tail(x) ELSE x
       IN  AllDigits(d) /\ Len(d) <= 3

ExponentValue(x) ==
    IF x # "" /\ At(x, 0) = "-" THEN 0 - DigitsVal(Tail(x), 0)
    ELSE IF x # "" /\ At(x, 0) = "+" THEN DigitsVal(Tail(x), 0)
    ELSE DigitsVal(x, 0)

Converted(r) ==
    /\ pc = "done" /\ fault = "none" /\ ~sentinel
    /\ rho = [mantissa |-> RawMantissa(r), exponent |-> ExponentValue(RawExponent(r)) + 3]

C4_SentinelTotal ==
    (Normalised /\ (result = "inf" \/ Len(result) < 9 \/ At(result, 8) # "e")) =>
        pc = "done" /\ fault = "none" /\ sentinel /\ rho = SentinelDensity

\* C5: on every exit path of retrieve_mass_density the working directory is again
\* the directory the call was entered from (here on a machine that has both the
\* model's directory and the propagator's bin directory).
C5_DirectoryRestored ==
    (Normalised /\ {INSTALL, BIN} \subseteq fs) => cwd = entry_cwd

=============================================================================
